---- MODULE Spec2Model ----
(***************************************************************************)
(* devops-soar: the /triage handler of app/app.py together with the        *)
(* automation job it spawns and the shared report file report.md, and the  *)
(* two provider lookup scripts app/scripts/check_abuseipdb.py and          *)
(* app/scripts/check_virustotal.py.                                        *)
(*                                                                         *)
(* Spec        concurrent triage_ip calls, their jobs and report.md        *)
(* ScriptSpec  one run of a provider lookup script, from module import     *)
(*             (credential loading) to process exit                        *)
(***************************************************************************)
EXTENDS Integers, Sequences, FiniteSets, TLC

VARIABLES
    pc,          \* triage_ip call r: "idle", "waiting" (blocked in subprocess.run), "done"
    data,        \* request.get_json() of call r
    job,         \* the ansible-playbook process spawned by call r
    report_md,   \* the file report.md in the working directory
    resp,        \* what call r returned: (jsonify(...), status)
    raised,      \* exception that left triage_ip uncaught in call r ("" = none)
    spawned,     \* number of subprocess.run invocations made by call r
    opened,      \* number of open('report.md') invocations made by call r
    fileBy,      \* history: the call whose job wrote the current report.md (0 = none)
    written,     \* history: what the job of call r last wrote to report.md
    readBy,      \* history: the writer of the content call r read (0 = none)
    openError,   \* history: the exception open('report.md') raised in call r ("" = none)
    overlapped,  \* history: another call was blocked in subprocess.run together with r
    spc,         \* script: position in the run
    provider,    \* script: which script runs
    secrets,     \* script: secrets.yml: "absent", "unreadable", "open", "closed"
    linesRead,   \* script: lines of secrets.yml consumed by the for loop
    API_KEY,     \* script: module-level API_KEY
    argv,        \* script: sys.argv
    stdout,      \* script: the JSON documents printed, in order
    exitcode,    \* script: process exit code (-1 while running)
    uncaught,    \* script: exception that ended the run uncaught ("" = none)
    requested,   \* script: number of requests.get calls issued
    response,    \* script: what requests.get produced
    keyAtMain,   \* history: API_KEY when main() was entered
    fileKey      \* history: the `<provider>_key: <value>` line of secrets.yml, as far as read

tvars == <<pc, data, job, report_md, resp, raised, spawned, opened,
           fileBy, written, readBy, openError, overlapped>>
svars == <<spc, provider, secrets, linesRead, API_KEY, argv, stdout, exitcode,
           uncaught, requested, response, keyAtMain, fileKey>>
vars == <<tvars, svars>>

(***************************************************************************)
(* Bounds                                                                  *)
(***************************************************************************)
NumRequests == 2        \* triage_ip calls in one behaviour
MaxWritesPerJob == 1    \* times one job rewrites report.md
MaxLines == 2           \* lines of secrets.yml
MaxLineLen == 4         \* tokens in one line of secrets.yml

Requests == 1..NumRequests

(***************************************************************************)
(* JSON values: a Python str s is Str(s), None is JNull.  A dict is a      *)
(* TLA+ function from its keys.                                            *)
(***************************************************************************)
Str(s) == <<"str", s>>
JNull == <<"null">>

(***************************************************************************)
(* Request bodies as request.get_json() returns them: None for a request   *)
(* without a JSON body, otherwise the decoded document (an object, or any  *)
(* other JSON value, here a list).                                         *)
(***************************************************************************)
DIAGNOSTIC_IP == "127.0.0.1"
IPs == {"", DIAGNOSTIC_IP, "8.8.8.8", "1.1.1.1"}

PyNone == [type |-> "None"]
PyDict(d) == [type |-> "dict", val |-> d]
PyList(l) == [type |-> "list", val |-> l]

Bodies ==
    {PyNone, PyDict(<<>>), PyDict([host |-> "8.8.8.8"]), PyList(<<"ip">>)}
    \cup {PyDict([ip |-> i]) : i \in IPs}

\* Python truth value of a body: None, {} and [] are false
Truthy(d) ==
    CASE d.type = "None" -> FALSE
      [] d.type = "dict" -> DOMAIN d.val # {}
      [] d.type = "list" -> Len(d.val) > 0

\* Python `key in d`
Contains(key, d) ==
    CASE d.type = "dict" -> key \in DOMAIN d.val
      [] d.type = "list" -> \E i \in 1..Len(d.val) : d.val[i] = key

\* app.py line 9: `not data or 'ip' not in data`
MissingIp(d) == ~Truthy(d) \/ ~Contains("ip", d)

\* d['ip'] is defined for a dict; a list raises TypeError
Subscriptable(d) == d.type = "dict"

\* app.py line 12
ip_address(d) == d.val["ip"]

\* app.py line 15 (IsDiagnostic_Never: the variant that lost the bypass)
IsDiagnostic_Never(ip) == FALSE
IsDiagnostic(ip) == ip = DIAGNOSTIC_IP

(***************************************************************************)
(* Responses: (jsonify(body), status); status 200 when the handler gives   *)
(* none.                                                                   *)
(***************************************************************************)
NoResponse == [status |-> 0, json |-> [none |-> JNull]]
Respond(body, status) == [status |-> status, json |-> body]

\* app.py line 10
MissingIpResponse ==
    Respond([error |-> Str("Missing 'ip' in request body")], 400)

\* app.py lines 16-19
DiagnosticResponse ==
    Respond([message |-> Str("Playbook successfully executed for IP: 127.0.0.1"),
             report |-> Str("There's no place like home. It's safe here.")], 200)

\* app.py lines 34-37 (SuccessResponse_NoReport: the variant that drops what it read)
SuccessResponse_NoReport(ip, report_content) ==
    Respond([message |-> Str("Playbook successfully executed for IP: " \o ip),
             report |-> Str("")], 200)
SuccessResponse(ip, report_content) ==
    Respond([message |-> Str("Playbook successfully executed for IP: " \o ip),
             report |-> Str(report_content)], 200)

\* app.py lines 40-43; e_stderr is CalledProcessError.stderr
FailedResponse(ip, e_stderr) ==
    Respond([error |-> Str("Playbook execution failed for IP: " \o ip),
             playbook_error |-> e_stderr], 500)

\* app.py line 45
NotFoundResponse ==
    Respond([error |-> Str("ansible-playbook command not found.")], 500)

(***************************************************************************)
(* subprocess.run(command, text=True, check=True), app.py lines 21-29.     *)
(***************************************************************************)
\* app.py lines 21-26: the argument vector, the ip bound into one argument
command(ip) ==
    <<"ansible-playbook", "ansible/playbook.yml", "--extra-vars", "ip_to_check=" \o ip>>

\* line 29 passes neither capture_output=True nor stderr=PIPE
CAPTURE_OUTPUT == FALSE

\* the stderr attribute of CompletedProcess / CalledProcessError: the
\* child's stderr text when it was captured, None when it was inherited
CapturedStderr(job_stderr) == IF CAPTURE_OUTPUT THEN Str(job_stderr) ELSE JNull

\* check=True: a non-zero return code raises CalledProcessError
\* (RaisesCalledProcessError_Never: the variant without check=True)
RaisesCalledProcessError_Never(returncode) == FALSE
RaisesCalledProcessError(returncode) == returncode # 0

NoJob == [state |-> "none", args |-> <<>>, returncode |-> 0, stderr |-> "", writes |-> 0]

\* the child process is created and call r blocks until it exits
\* (StartJob_Exclusive: the variant that runs one job at a time)
StartJob_Exclusive(r, args) ==
    /\ \A q \in Requests \ {r} : job[q].state # "running"
    /\ job' = [job EXCEPT ![r] = [NoJob EXCEPT !.state = "running", !.args = args]]
StartJob(r, args) ==
    job' = [job EXCEPT ![r] = [NoJob EXCEPT !.state = "running", !.args = args]]

(***************************************************************************)
(* The automation job (ansible-playbook ansible/playbook.yml): an external *)
(* program.  It may rewrite report.md while it runs and exits with a       *)
(* return code and a diagnostic text on its stderr.                        *)
(***************************************************************************)
\* what a job started with args writes: its findings about the ip it was given
ReportFor(args) == "findings, " \o args[4]
JobOutcomes == {<<0, "">>, <<1, "boom">>, <<2, "fatal: unreachable">>}

AbsentFile == [exists |-> "absent", content |-> ""]
UnreadableFile == [exists |-> "unreadable", content |-> ""]
TextFile(text) == [exists |-> "file", content |-> text]

\* open('report.md', 'r') followed by f.read(): the exception raised, "" if none
OpenError(f) ==
    CASE f.exists = "absent" -> "FileNotFoundError"
      [] f.exists = "unreadable" -> "PermissionError"
      [] OTHER -> ""

(***************************************************************************)
(* The except clauses of triage_ip, app.py lines 39-45: the response for a *)
(* caught exception, NoResponse when the exception is not caught.          *)
(* (Except_NoFileNotFound: the variant without the clause of line 44.)     *)
(***************************************************************************)
Except_NoFileNotFound(exc, ip, e_stderr) ==
    CASE exc = "CalledProcessError" -> FailedResponse(ip, e_stderr)
      [] OTHER -> NoResponse
Except(exc, ip, e_stderr) ==
    CASE exc = "CalledProcessError" -> FailedResponse(ip, e_stderr)
      [] exc = "FileNotFoundError" -> NotFoundResponse
      [] OTHER -> NoResponse

\* call r ends by raising exc inside the try block
Raise(r, exc, ip, e_stderr) ==
    LET answer == Except(exc, ip, e_stderr) IN
    /\ pc' = [pc EXCEPT ![r] = "done"]
    /\ resp' = [resp EXCEPT ![r] = answer]
    /\ raised' = [raised EXCEPT ![r] = IF answer = NoResponse THEN exc ELSE ""]

\* call r ends by returning answer
Return(r, answer) ==
    /\ pc' = [pc EXCEPT ![r] = "done"]
    /\ resp' = [resp EXCEPT ![r] = answer]
    /\ raised' = raised

InFlight(q) == pc[q] = "waiting"

(***************************************************************************)
(* triage_ip, app.py lines 7-29: from the request to the point where the   *)
(* call blocks in subprocess.run.  found: whether the executable           *)
(* ansible-playbook can be located.                                        *)
(***************************************************************************)
TriageBegin(r, body, found) ==
    /\ pc[r] = "idle"
    /\ data' = [data EXCEPT ![r] = body]
    /\ UNCHANGED <<report_md, opened, fileBy, written, readBy, openError, svars>>
    /\ IF MissingIp(body)
       THEN /\ Return(r, MissingIpResponse)
            /\ UNCHANGED <<job, spawned, overlapped>>
       ELSE IF ~Subscriptable(body)
       THEN \* line 12 is outside the try block: the TypeError is not caught
            /\ pc' = [pc EXCEPT ![r] = "done"]
            /\ raised' = [raised EXCEPT ![r] = "TypeError"]
            /\ UNCHANGED <<resp, job, spawned, overlapped>>
       ELSE IF IsDiagnostic(ip_address(body))
       THEN /\ Return(r, DiagnosticResponse)
            /\ UNCHANGED <<job, spawned, overlapped>>
       ELSE /\ spawned' = [spawned EXCEPT ![r] = @ + 1]
            /\ IF found
               THEN /\ StartJob(r, command(ip_address(body)))
                    /\ pc' = [pc EXCEPT ![r] = "waiting"]
                    /\ overlapped' =
                         [q \in Requests |->
                            IF q = r THEN \E p \in Requests \ {r} : InFlight(p)
                            ELSE overlapped[q] \/ InFlight(q)]
                    /\ UNCHANGED <<resp, raised>>
               ELSE /\ Raise(r, "FileNotFoundError", ip_address(body), JNull)
                    /\ UNCHANGED <<job, overlapped>>

\* the job of call r writes the report
JobWriteReport(r) ==
    /\ job[r].state = "running"
    /\ job[r].writes < MaxWritesPerJob
    /\ job' = [job EXCEPT ![r].writes = @ + 1]
    /\ report_md' = TextFile(ReportFor(job[r].args))
    /\ fileBy' = r
    /\ written' = [written EXCEPT ![r] = ReportFor(job[r].args)]
    /\ UNCHANGED <<pc, data, resp, raised, spawned, opened, readBy, openError,
                   overlapped, svars>>

\* the job of call r exits
JobExit(r, outcome) ==
    /\ job[r].state = "running"
    /\ job' = [job EXCEPT ![r].state = "exited",
                          ![r].returncode = outcome[1],
                          ![r].stderr = outcome[2]]
    /\ UNCHANGED <<pc, data, report_md, resp, raised, spawned, opened,
                   fileBy, written, readBy, openError, overlapped, svars>>

(***************************************************************************)
(* triage_ip, app.py lines 29-45: subprocess.run returns or raises, the    *)
(* report is read and the response is built.                               *)
(***************************************************************************)
TriageFinish(r) ==
    LET ip == ip_address(data[r]) IN
    /\ pc[r] = "waiting"
    /\ job[r].state = "exited"
    /\ UNCHANGED <<data, job, report_md, spawned, fileBy, written, overlapped, svars>>
    /\ IF RaisesCalledProcessError(job[r].returncode)
       THEN /\ Raise(r, "CalledProcessError", ip, CapturedStderr(job[r].stderr))
            /\ UNCHANGED <<opened, readBy, openError>>
       ELSE /\ opened' = [opened EXCEPT ![r] = @ + 1]
            /\ openError' = [openError EXCEPT ![r] = OpenError(report_md)]
            /\ IF OpenError(report_md) # ""
               THEN /\ Raise(r, OpenError(report_md), ip, JNull)
                    /\ UNCHANGED readBy
               ELSE /\ Return(r, SuccessResponse(ip, report_md.content))
                    /\ readBy' = [readBy EXCEPT ![r] = fileBy]

TriageInit ==
    /\ pc = [r \in Requests |-> "idle"]
    /\ data = [r \in Requests |-> PyNone]
    /\ job = [r \in Requests |-> NoJob]
    /\ report_md \in {AbsentFile, UnreadableFile, TextFile("STALE")}
    /\ resp = [r \in Requests |-> NoResponse]
    /\ raised = [r \in Requests |-> ""]
    /\ spawned = [r \in Requests |-> 0]
    /\ opened = [r \in Requests |-> 0]
    /\ fileBy = 0
    /\ written = [r \in Requests |-> ""]
    /\ readBy = [r \in Requests |-> 0]
    /\ openError = [r \in Requests |-> ""]
    /\ overlapped = [r \in Requests |-> FALSE]

ScriptIdle ==
    /\ spc = "off"
    /\ provider = "none"
    /\ secrets = "closed"
    /\ linesRead = 0
    /\ API_KEY = <<>>
    /\ argv = <<>>
    /\ stdout = <<>>
    /\ exitcode = -1
    /\ uncaught = ""
    /\ requested = 0
    /\ response = [kind |-> "none"]
    /\ keyAtMain = <<>>
    /\ fileKey = [status |-> "unread", value |-> <<>>]

(***************************************************************************)
(* Provider lookup scripts, app/scripts/check_abuseipdb.py and             *)
(* app/scripts/check_virustotal.py.                                        *)
(*                                                                         *)
(* A line of secrets.yml is a sequence of tokens: "KEY" is the text        *)
(* `<provider>_key` of the running script, ":" a colon, " " white space    *)
(* and "x" any other text.                                                 *)
(***************************************************************************)
Providers == {"abuseipdb", "virustotal"}
Tokens == {"KEY", ":", " ", "x"}

RECURSIVE SeqsUpTo(_)
SeqsUpTo(n) ==
    IF n = 0 THEN {<<>>}
    ELSE LET shorter == SeqsUpTo(n - 1) IN
         shorter \cup {Append(l, t) : l \in {q \in shorter : Len(q) = n - 1}, t \in Tokens}

Lines == SeqsUpTo(MaxLineLen)

\* line 19: `'<provider>_key:' in line`
HasKeyMarker(line) ==
    \E i \in 1..(Len(line) - 1) : line[i] = "KEY" /\ line[i + 1] = ":"

\* positions of the colons of a line, and the n-th of them (0 if there is none)
Colons(line) == {i \in 1..Len(line) : line[i] = ":"}
RECURSIVE NthColon(_, _)
NthColon(line, n) ==
    LET after == IF n = 1 THEN 0 ELSE NthColon(line, n - 1) IN
    IF n > 1 /\ after = 0 THEN 0
    ELSE IF \E i \in Colons(line) : i > after
         THEN CHOOSE i \in Colons(line) : i > after /\ \A j \in Colons(line) : j > after => i <= j
         ELSE 0

\* line.split(':')[1]: the text between the first and the second colon
SplitField1(line) ==
    LET first == NthColon(line, 1)
        second == NthColon(line, 2)
        stop == IF second = 0 THEN Len(line) ELSE second - 1
    IN SubSeq(line, first + 1, stop)

\* str.strip(): white space removed at both ends
RECURSIVE lstrip(_)
lstrip(t) == IF t # <<>> /\ Head(t) = " " THEN lstrip(Tail(t)) ELSE t
RECURSIVE rstrip(_)
rstrip(t) == IF t # <<>> /\ t[Len(t)] = " " THEN rstrip(SubSeq(t, 1, Len(t) - 1)) ELSE t
strip(t) == rstrip(lstrip(t))

\* line 20
ParseKey(line) == strip(SplitField1(line))

\* line 17, the line shape the parser is written for, "<provider>_key: API_KEY",
\* and the value such a line holds
IsKeyLine(line) == Len(line) >= 2 /\ line[1] = "KEY" /\ line[2] = ":"
ValueOf(line) == strip(SubSeq(line, 3, Len(line)))

(***************************************************************************)
(* Python values of the scripts: JSON documents and sys.argv.              *)
(***************************************************************************)
PyStr(s) == [type |-> "str", val |-> s]
PyInt(n) == [type |-> "int", val |-> n]
AttributeError == [type |-> "AttributeError"]

\* d.get(key, default); AttributeError when d has no get method
Get(d, key, default) ==
    IF d.type = "dict"
    THEN IF key \in DOMAIN d.val THEN d.val[key] ELSE default
    ELSE AttributeError

Argvs == {<<"script">>, <<"script", "8.8.8.8">>}

\* what requests.get and the provider may produce
ApiBodies ==
    { PyList(<<>>),
      PyDict(<<>>),
      PyDict([data |-> PyNone]),
      PyDict([data |-> PyDict([abuseConfidenceScore |-> PyInt(100)])]),
      PyDict([data |-> PyDict([attributes |-> PyDict([last_analysis_stats |-> PyNone])])]),
      PyDict([data |-> PyDict([attributes |->
                 PyDict([as_owner |-> PyStr("GOOGLE"),
                         last_analysis_stats |-> PyDict([malicious |-> PyInt(3)])])])]) }

\* a response body: text that is no JSON document, or a JSON document
NotJson == [json |-> FALSE]
Json(b) == [json |-> TRUE, val |-> b]
StatusCodes == {200, 404, 500}

\* what requests.get may produce: a transport failure or a response
HttpOutcomes ==
    {[kind |-> "ConnectionError"]}
    \cup {[kind |-> "response", code |-> c, text |-> t] :
             c \in StatusCodes, t \in {NotJson} \cup {Json(b) : b \in ApiBodies}}

\* response.raise_for_status(): HTTPError for 4xx and 5xx
RaisesHTTPError(code) == code >= 400 /\ code < 600

ErrorDoc(text) == PyDict([error |-> PyStr(text)])

\* the diagnostics printed by the two scripts
SecretsNotFoundDoc(p) ==
    IF p = "abuseipdb"
    THEN ErrorDoc("Secrets file not found. Looked at: secrets.yml")
    ELSE ErrorDoc("Secrets file not found at secrets.yml")
KeyMissingDoc(p) ==
    IF p = "abuseipdb"
    THEN ErrorDoc("AbuseIPDB API key not found or is empty in secrets.yml")
    ELSE ErrorDoc("VirusTotal API key not found or is empty in secrets.yml")
NoIpDoc == ErrorDoc("No IP address provided.")
RequestFailedDoc(e) == ErrorDoc("API request failed: " \o e)
DecodeFailedDoc == ErrorDoc("Failed to decode JSON response from API.")

\* check_abuseipdb.py line 60: the 'data' part of the response
AbuseResult(decoded_response) == Get(decoded_response, "data", PyDict(<<>>))

\* check_virustotal.py lines 53-68 (the time.sleep(1) of line 60 changes no state)
VirusTotalResult(decoded_response) ==
    LET data_part == Get(decoded_response, "data", PyDict(<<>>))
        attributes == Get(data_part, "attributes", PyDict(<<>>))
        stats == Get(attributes, "last_analysis_stats", PyDict(<<>>))
        owner == Get(attributes, "as_owner", PyStr("N/A"))
    IN IF stats.type # "dict"
       THEN AttributeError
       ELSE PyDict([as_owner |-> owner,
                    harmless |-> Get(stats, "harmless", PyInt(0)),
                    malicious |-> Get(stats, "malicious", PyInt(0)),
                    suspicious |-> Get(stats, "suspicious", PyInt(0)),
                    undetected |-> Get(stats, "undetected", PyInt(0))])

\* print(json.dumps(doc)) followed by sys.exit(1)
\* (Fail_ExitZero: the variant that reports the error in the document only)
Fail_ExitZero(doc) ==
    /\ stdout' = Append(stdout, doc)
    /\ exitcode' = 0
    /\ spc' = "exited"
    /\ uncaught' = uncaught
Fail(doc) ==
    /\ stdout' = Append(stdout, doc)
    /\ exitcode' = 1
    /\ spc' = "exited"
    /\ uncaught' = uncaught

\* print(json.dumps(doc)) as the last statement of main(): the script ends normally
Succeed(doc) ==
    /\ stdout' = Append(stdout, doc)
    /\ exitcode' = 0
    /\ spc' = "exited"
    /\ uncaught' = uncaught

\* an exception no except clause catches: traceback on stderr, exit code 1
Crash(exc) ==
    /\ stdout' = stdout
    /\ exitcode' = 1
    /\ spc' = "exited"
    /\ uncaught' = exc

\* lines 12-16 and 22-24: API_KEY = '' and the secrets file is opened; error
\* is the exception open() raises, "" if none
OpenSecrets(error) ==
    /\ spc = "import"
    /\ UNCHANGED <<tvars, provider, linesRead, API_KEY, argv, requested, response,
                   keyAtMain, fileKey>>
    /\ CASE error = "" ->
              /\ secrets' = "open"
              /\ spc' = "loading"
              /\ UNCHANGED <<stdout, exitcode, uncaught>>
         [] error = "FileNotFoundError" ->
              /\ secrets' = "absent"
              /\ Fail(SecretsNotFoundDoc(provider))
         [] OTHER ->
              /\ secrets' = "unreadable"
              /\ Crash(error)

\* lines 26-28 (and entry into main): the check that follows the with block
LoadEnd(key) ==
    /\ secrets' = "closed"
    /\ IF key = <<>>
       THEN /\ Fail(KeyMissingDoc(provider))
            /\ UNCHANGED keyAtMain
       ELSE /\ spc' = "main"
            /\ keyAtMain' = key
            /\ UNCHANGED <<stdout, exitcode, uncaught>>

\* lines 18-21: one iteration of `for line in f`
ReadLine(line) ==
    /\ spc = "loading"
    /\ linesRead < MaxLines
    /\ linesRead' = linesRead + 1
    /\ UNCHANGED <<tvars, provider, argv, requested, response>>
    /\ IF HasKeyMarker(line)
       THEN /\ API_KEY' = ParseKey(line)
            /\ fileKey' = IF IsKeyLine(line)
                          THEN [status |-> "value", value |-> ValueOf(line)]
                          ELSE [status |-> "unknown", value |-> <<>>]
            /\ LoadEnd(ParseKey(line))
       ELSE UNCHANGED <<API_KEY, fileKey, secrets, spc, stdout, exitcode, uncaught, keyAtMain>>

\* the for loop ends without a break
EndOfFile ==
    /\ spc = "loading"
    /\ fileKey' = [status |-> "missing", value |-> <<>>]
    /\ LoadEnd(API_KEY)
    /\ UNCHANGED <<tvars, provider, linesRead, API_KEY, argv, requested, response>>

\* main() up to requests.get
Main ==
    /\ spc = "main"
    /\ UNCHANGED <<tvars, provider, secrets, linesRead, API_KEY, argv, response,
                   keyAtMain, fileKey>>
    /\ IF Len(argv) < 2
       THEN /\ Fail(NoIpDoc)
            /\ UNCHANGED requested
       ELSE /\ requested' = requested + 1
            /\ spc' = "requesting"
            /\ UNCHANGED <<stdout, exitcode, uncaught>>

\* response.json() on a body that is no JSON document raises the decode error
\* of the JSON module the installed requests uses: its own
\* requests.exceptions.JSONDecodeError (a RequestException), json.JSONDecodeError,
\* or simplejson.JSONDecodeError (neither)
DecodeErrors ==
    {"requests.exceptions.JSONDecodeError", "json.JSONDecodeError",
     "simplejson.JSONDecodeError"}

\* main() from the return of requests.get to the end of the script
HttpReply(outcome, decode_error) ==
    /\ spc = "requesting"
    /\ response' = outcome
    /\ UNCHANGED <<tvars, provider, secrets, linesRead, API_KEY, argv, requested,
                   keyAtMain, fileKey>>
    /\ IF outcome.kind = "ConnectionError"
       THEN Fail(RequestFailedDoc("connection refused"))
       ELSE IF RaisesHTTPError(outcome.code)
       THEN Fail(RequestFailedDoc(ToString(outcome.code) \o " Error"))
       ELSE IF ~outcome.text.json
       THEN CASE decode_error = "requests.exceptions.JSONDecodeError" ->
                   Fail(RequestFailedDoc("Expecting value"))
              [] decode_error = "json.JSONDecodeError" ->
                   Fail(DecodeFailedDoc)
              [] OTHER -> Crash(decode_error)
       ELSE LET result == IF provider = "abuseipdb"
                          THEN AbuseResult(outcome.text.val)
                          ELSE VirusTotalResult(outcome.text.val)
            IN IF result.type = "AttributeError"
               THEN Crash("AttributeError")
               ELSE Succeed(result)

TriageOff == TriageInit /\ report_md = AbsentFile

ScriptInit ==
    /\ TriageOff
    /\ spc = "import"
    /\ provider \in Providers
    /\ secrets = "closed"
    /\ linesRead = 0
    /\ API_KEY = <<>>
    /\ argv \in Argvs
    /\ stdout = <<>>
    /\ exitcode = -1
    /\ uncaught = ""
    /\ requested = 0
    /\ response = [kind |-> "none"]
    /\ keyAtMain = <<>>
    /\ fileKey = [status |-> "unread", value |-> <<>>]

ScriptNext ==
    \/ \E error \in {"", "FileNotFoundError", "PermissionError"} : OpenSecrets(error)
    \/ \E line \in Lines : ReadLine(line)
    \/ EndOfFile
    \/ Main
    \/ \E outcome \in HttpOutcomes, decode_error \in DecodeErrors :
          HttpReply(outcome, decode_error)

ScriptSpec == ScriptInit /\ [][ScriptNext]_vars

Init == TriageInit /\ ScriptIdle

Next ==
    \/ \E r \in Requests, body \in Bodies, found \in BOOLEAN : TriageBegin(r, body, found)
    \/ \E r \in Requests : JobWriteReport(r)
    \/ \E r \in Requests, outcome \in JobOutcomes : JobExit(r, outcome)
    \/ \E r \in Requests : TriageFinish(r)

Spec == Init /\ [][Next]_vars

(***************************************************************************)
(* Properties of triage_ip, checked under Spec.  First their vocabulary    *)
(* and the responses they name, written out in full.                       *)
(***************************************************************************)
Done(r) == pc[r] = "done"
Started(r) == pc[r] # "idle"
HasIp(r) == data[r].type = "dict" /\ "ip" \in DOMAIN data[r].val
Ip(r) == data[r].val["ip"]
Diagnostic(r) == HasIp(r) /\ Ip(r) = DIAGNOSTIC_IP
NonDiagnostic(r) == HasIp(r) /\ Ip(r) # DIAGNOSTIC_IP
IpMissingOrEmpty(r) ==
    \/ data[r].type = "None"
    \/ data[r].type = "dict" /\ "ip" \notin DOMAIN data[r].val
    \/ HasIp(r) /\ Ip(r) = ""
IsSuccess(answer) == answer.status = 200 /\ "message" \in DOMAIN answer.json
SuccessWith(answer, ip, report) ==
    /\ answer.status = 200
    /\ DOMAIN answer.json = {"message", "report"}
    /\ answer.json.message = <<"str", "Playbook successfully executed for IP: " \o ip>>
    /\ answer.json.report = <<"str", report>>
DiagnosticResult ==
    [status |-> 200,
     json |-> [message |-> <<"str", "Playbook successfully executed for IP: 127.0.0.1">>,
               report |-> <<"str", "There's no place like home. It's safe here.">>]]
MissingIpError ==
    [status |-> 400, json |-> [error |-> <<"str", "Missing 'ip' in request body">>]]
CommandNotFoundError ==
    [status |-> 500, json |-> [error |-> <<"str", "ansible-playbook command not found.">>]]
PlaybookFailedError(ip, diagnostic) ==
    [status |-> 500,
     json |-> [error |-> <<"str", "Playbook execution failed for IP: " \o ip>>,
               playbook_error |-> <<"str", diagnostic>>]]
IsJsonError(answer) == answer.status \in {400, 500} /\ "error" \in DOMAIN answer.json
ExitedZero(r) == job[r].state = "exited" /\ job[r].returncode = 0
ExitedNonZero(r) == job[r].state = "exited" /\ job[r].returncode # 0
ExecutableNotFound(r) == spawned[r] = 1 /\ job[r].state = "none"

(***************************************************************************)
(* C1: for a request whose ip is not 127.0.0.1, when the job exits with a  *)
(* non-zero code the call returns status 500 with error "Playbook          *)
(* execution failed for IP: <ip>" and playbook_error equal to the job's    *)
(* stderr text, and never a success response.  Stated for a non-empty ip.  *)
(***************************************************************************)
C1_FailureCarriesStderr ==
    \A r \in Requests :
        Done(r) /\ NonDiagnostic(r) /\ Ip(r) # "" /\ ExitedNonZero(r)
        => /\ resp[r] = PlaybookFailedError(Ip(r), job[r].stderr)
           /\ ~IsSuccess(resp[r])

(***************************************************************************)
(* C2: a request whose ip is 127.0.0.1 gets the fixed success result; the  *)
(* call spawns no process and does not open report.md, whatever calls came *)
(* before and whatever report.md holds.                                    *)
(***************************************************************************)
C2_DiagnosticFixed ==
    \A r \in Requests :
        Started(r) /\ Diagnostic(r)
        => /\ Done(r)
           /\ resp[r] = DiagnosticResult
           /\ raised[r] = ""
           /\ spawned[r] = 0
           /\ opened[r] = 0
           /\ job[r] = NoJob

C2_Witness ==
    \E r \in Requests, q \in Requests :
        /\ q # r
        /\ Done(r) /\ Diagnostic(r) /\ resp[r] = DiagnosticResult
        /\ Done(q) /\ NonDiagnostic(q) /\ IsSuccess(resp[q])
        /\ report_md.exists = "file"

(***************************************************************************)
(* C3: a request with no body, without an 'ip' key or with 'ip' the empty  *)
(* string is answered with status 400, error "Missing 'ip' in request      *)
(* body", and no process is spawned for it.                                *)
(***************************************************************************)
C3_MissingOrEmptyRejected ==
    \A r \in Requests :
        Started(r) /\ IpMissingOrEmpty(r)
        => /\ spawned[r] = 0
           /\ Done(r)
           /\ resp[r] = MissingIpError

(***************************************************************************)
(* C4: every call of triage_ip that has ended has returned a success       *)
(* result or a JSON error object; none ended in an uncaught exception.     *)
(* Stated for the paths the claim lists: the body is absent, or a JSON     *)
(* object without ip or with a non-empty ip.                               *)
(***************************************************************************)
C4_NoUnhandledFault ==
    \A r \in Requests :
        Done(r) /\ data[r].type # "list" /\ (HasIp(r) => Ip(r) # "")
        => /\ raised[r] = ""
           /\ IsSuccess(resp[r]) \/ IsJsonError(resp[r])

(***************************************************************************)
(* C5: a call for a non-diagnostic ip that ran with no other call in       *)
(* flight and whose job wrote report.md and exited 0 has opened report.md  *)
(* exactly once and returned message "Playbook successfully executed for   *)
(* IP: <ip>" with the report its own job wrote; report.md is never opened  *)
(* before the job has exited.                                              *)
(***************************************************************************)
C5_SoloSuccess ==
    \A r \in Requests :
        /\ opened[r] > 0 => ExitedZero(r)
        /\ Done(r) /\ NonDiagnostic(r) /\ ~overlapped[r] /\ ExitedZero(r) /\ written[r] # ""
           => /\ opened[r] = 1
              /\ raised[r] = ""
              /\ readBy[r] = r
              /\ SuccessWith(resp[r], Ip(r), written[r])

C5_Witness ==
    \E r \in Requests :
        /\ Done(r) /\ NonDiagnostic(r) /\ ~overlapped[r] /\ ExitedZero(r)
        /\ written[r] = ReportFor(command("8.8.8.8"))
        /\ opened[r] = 1
        /\ SuccessWith(resp[r], "8.8.8.8", "findings, ip_to_check=8.8.8.8")

(***************************************************************************)
(* C8: one call makes at most one subprocess.run invocation and opens      *)
(* report.md at most once: exactly one invocation for a non-diagnostic     *)
(* ip, none for a request without ip or with the diagnostic ip.  After a   *)
(* failed invocation (non-zero exit, executable not found) the call has    *)
(* made no further invocation, has not opened report.md and has returned   *)
(* the failure.                                                            *)
(***************************************************************************)
C8_OneSpawnOneRead ==
    \A r \in Requests :
        /\ spawned[r] <= 1
        /\ opened[r] <= 1
        /\ Started(r) /\ NonDiagnostic(r) => spawned[r] = 1
        /\ Started(r) /\ (~HasIp(r) \/ Diagnostic(r)) => spawned[r] = 0 /\ opened[r] = 0
        /\ Done(r) /\ ExitedNonZero(r)
           => spawned[r] = 1 /\ opened[r] = 0 /\ IsJsonError(resp[r])
        /\ ExecutableNotFound(r)
           => Done(r) /\ opened[r] = 0 /\ IsJsonError(resp[r])

C8_Witness ==
    \E r \in Requests, q \in Requests :
        /\ Done(r) /\ ExitedNonZero(r) /\ spawned[r] = 1 /\ opened[r] = 0
        /\ Done(q) /\ ExecutableNotFound(q) /\ opened[q] = 0

(***************************************************************************)
(* C9: triage calls are not serialized on report.md.  A call for a         *)
(* non-diagnostic ip can always start its job, whatever the other calls    *)
(* are doing, and every call in flight has its own job, started with its   *)
(* own ip.  (The witness is the race: a call returns success for its own   *)
(* ip with the report the other call's job wrote.)                         *)
(***************************************************************************)
C9_NotSerialized ==
    \A r \in Requests :
        /\ pc[r] = "idle"
           => \A i \in IPs \ {DIAGNOSTIC_IP} : ENABLED TriageBegin(r, PyDict([ip |-> i]), TRUE)
        /\ InFlight(r)
           => /\ job[r].state \in {"running", "exited"}
              /\ job[r].args = command(Ip(r))
              /\ spawned[r] = 1

C9_CrossReport ==
    \E r \in Requests, q \in Requests :
        /\ q # r
        /\ NonDiagnostic(r) /\ NonDiagnostic(q) /\ Ip(r) # Ip(q)
        /\ overlapped[r] /\ spawned[r] = 1 /\ spawned[q] = 1
        /\ Done(r)
        /\ readBy[r] = q
        /\ SuccessWith(resp[r], Ip(r), "findings, ip_to_check=" \o Ip(q))

(***************************************************************************)
(* C10: when the job exits 0 and report.md does not exist, the call        *)
(* returns no success but status 500, error "ansible-playbook command not  *)
(* found.", the very response of a call whose executable cannot be         *)
(* located; and a call whose executable cannot be located returns that     *)
(* response without opening report.md.                                     *)
(***************************************************************************)
C10_MissingReportAsNotFound ==
    \A r \in Requests :
        /\ Done(r) /\ ExitedZero(r) /\ openError[r] = "FileNotFoundError"
           => resp[r] = CommandNotFoundError /\ ~IsSuccess(resp[r]) /\ raised[r] = ""
        /\ ExecutableNotFound(r)
           => Done(r) /\ resp[r] = CommandNotFoundError /\ opened[r] = 0 /\ raised[r] = ""

C10_Witness ==
    \E r \in Requests, q \in Requests :
        /\ Done(r) /\ ExitedZero(r) /\ openError[r] = "FileNotFoundError"
        /\ Done(q) /\ ExecutableNotFound(q)
        /\ resp[r] = resp[q]

(***************************************************************************)
(* Properties of the lookup scripts, checked under ScriptSpec.  First      *)
(* their vocabulary.                                                       *)
(***************************************************************************)
Exited == spc = "exited"
EnteredMain == keyAtMain # <<>>
IsErrorObject(out) ==
    Len(out) = 1 /\ out[1].type = "dict" /\ "error" \in DOMAIN out[1].val
NoIpGiven == EnteredMain /\ Len(argv) < 2
TransportFailed == response.kind = "ConnectionError"
BadStatus == response.kind = "response" /\ response.code >= 400
NotJsonBody == response.kind = "response" /\ response.code < 400 /\ ~response.text.json
JsonBody == response.kind = "response" /\ response.code < 400 /\ response.text.json

(***************************************************************************)
(* C6 as claimed: a lookup script that has entered main() ends, on every   *)
(* path, with exactly one JSON object on standard output and exit code 0.  *)
(***************************************************************************)
C6_AlwaysExitZero ==
    Exited /\ EnteredMain
    => exitcode = 0 /\ Len(stdout) = 1 /\ stdout[1].type = "dict"

(***************************************************************************)
(* C6 as amended: a lookup script prints at most one JSON document.  On a  *)
(* secrets file that is absent or gives no key, on a missing IP argument,  *)
(* on a transport failure and on a 4xx/5xx status it prints exactly one    *)
(* JSON object with an "error" key and exits with code 1.  A body that is  *)
(* no JSON ends it with exit code 1 and at most that one error object.     *)
(* Exit code 0 is reached only after a JSON body was received and exactly  *)
(* one document printed; an uncaught exception prints nothing and exits    *)
(* with code 1.                                                            *)
(***************************************************************************)
C6_ErrorsExitOne ==
    Exited
    => /\ Len(stdout) <= 1
       /\ exitcode \in {0, 1}
       /\ (\/ secrets = "absent"
           \/ secrets = "closed" /\ ~EnteredMain
           \/ NoIpGiven \/ TransportFailed \/ BadStatus)
          => exitcode = 1 /\ IsErrorObject(stdout) /\ uncaught = ""
       /\ NotJsonBody => exitcode = 1 /\ (stdout = <<>> \/ IsErrorObject(stdout))
       /\ exitcode = 0 => JsonBody /\ Len(stdout) = 1 /\ uncaught = ""
       /\ uncaught # "" => exitcode = 1 /\ stdout = <<>>

C6_Witness ==
    /\ Exited /\ BadStatus
    /\ exitcode = 1
    /\ stdout = <<[type |-> "dict",
                   val |-> [error |-> [type |-> "str", val |-> "API request failed: 404 Error"]]]>>

(***************************************************************************)
(* C7: credential loading ends the script with one JSON error object and   *)
(* no outbound request when secrets.yml is absent or the value of the      *)
(* `<provider>_key: <value>` line is blank or the line is not there; when  *)
(* the value is not blank loading does not end the script, and API_KEY     *)
(* keeps the loaded value from then on.                                    *)
(***************************************************************************)
C7_CredentialLoading ==
    LET fatal == Exited /\ ~EnteredMain /\ IsErrorObject(stdout) /\ requested = 0 IN
    /\ secrets = "absent" => fatal
    /\ fileKey.status = "missing" => fatal
    /\ fileKey.status = "value" /\ fileKey.value = <<>> => fatal
    /\ fileKey.status = "value" /\ fileKey.value # <<>> => EnteredMain
    /\ EnteredMain => API_KEY = keyAtMain

====
